---- MODULE Spec2Model ----
(***************************************************************************)
(* Model of lib/index.js: the Redis cache connection (start, stop,        *)
(* isReady, get, set, drop, generateKey) together with the events of the  *)
(* ioredis clients it creates and the replies of the store.               *)
(***************************************************************************)
EXTENDS Integers, Sequences, FiniteSets, TLC

\* ------------------------------------------------------------------ bounds

MaxStarts == 2      \* calls to start
MaxOps == 2         \* calls to get / set / drop
MaxEvents == 3      \* 'error' and 'ready' events the clients emit in all

\* ------------------------------------------------------- JavaScript values

\* A JavaScript value: its type t, a numeric payload n and a string payload s.
JsVal(t, n, s) == [t |-> t, n |-> n, s |-> s]
Undefined == JsVal("undefined", 0, "")
JsNull == JsVal("null", 0, "")
JsNaN == JsVal("nan", 0, "")
JsNum(n) == JsVal("number", n, "")
JsStr(s) == JsVal("string", 0, s)
JsBool(b) == JsVal("boolean", IF b THEN 1 ELSE 0, "")
JsObj(s) == JsVal("object", 0, s)
\* An object that refers to itself: JSON.stringify throws on it.
JsCyclic == JsVal("cyclic", 0, "")

\* ToBoolean of the language, as used by the ! operator.
Truthy(v) ==
    CASE v.t = "undefined" -> FALSE
      [] v.t = "null" -> FALSE
      [] v.t = "nan" -> FALSE
      [] v.t = "number" -> v.n # 0
      [] v.t = "string" -> v.s # ""
      [] v.t = "boolean" -> v.n = 1
      [] OTHER -> TRUE

\* Values a caller passes to set, and the times and ttls it is called with.
Values == {JsNum(0), JsBool(FALSE), JsStr(""), JsNum(1), JsObj("Ann"), JsCyclic}
Serializable == Values \ {JsCyclic}
TTLs == {5}
Times == {1}
Numbers == 0 .. 5

\* ------------------------------------------------------------------- JSON

\* The text of one JSON value: a tagged token.
Token(v) ==
    CASE v.t = "number" -> <<"num", ToString(v.n)>>
      [] v.t = "string" -> <<"str", v.s>>
      [] v.t = "boolean" -> <<"lit", IF v.n = 1 THEN "true" ELSE "false">>
      [] v.t = "object" -> <<"obj", v.s>>
      [] OTHER -> <<"lit", "null">>        \* null and NaN

ParseToken(tok) ==
    CASE tok[1] = "num" -> JsNum(CHOOSE n \in Numbers : ToString(n) = tok[2])
      [] tok[1] = "str" -> JsStr(tok[2])
      [] tok[1] = "obj" -> JsObj(tok[2])
      [] tok[2] = "true" -> JsBool(TRUE)
      [] tok[2] = "false" -> JsBool(FALSE)
      [] OTHER -> JsNull

\* A JSON text: an object (its members in order), a literal (one member with
\* an empty name) or text that is not JSON.
Text(kind, members) == [kind |-> kind, members |-> members]
NotJson == Text("invalid", <<>>)

\* JSON.stringify(envelope): members whose value is undefined are left out;
\* a cyclic value throws.
JSONstringify(envelope) ==
    [threw |-> envelope.item.t = "cyclic",
     text |-> Text("object",
                (IF envelope.item.t \in {"undefined", "cyclic"} THEN <<>>
                 ELSE << <<"item", Token(envelope.item)>> >>)
                \o << <<"stored", Token(envelope.stored)>> >>
                \o (IF envelope.ttl.t = "undefined" THEN <<>>
                    ELSE << <<"ttl", Token(envelope.ttl)>> >>))]

Member(text, name) ==
    IF \E i \in 1 .. Len(text.members) : text.members[i][1] = name
    THEN ParseToken((text.members[CHOOSE i \in 1 .. Len(text.members) :
                                    text.members[i][1] = name])[2])
    ELSE Undefined

\* A parsed envelope: val is the parsed value itself (for the !envelope test),
\* item, stored and ttl its properties (undefined on a value that has none).
Parsed(val, item, stored, ttl) ==
    [val |-> val, item |-> item, stored |-> stored, ttl |-> ttl]
NullEnvelope == Parsed(JsNull, Undefined, Undefined, Undefined)

\* JSON.parse(text).
JSONparse(text) ==
    CASE text.kind = "object" ->
            [threw |-> FALSE,
             value |-> Parsed(JsObj("envelope"), Member(text, "item"),
                              Member(text, "stored"), Member(text, "ttl"))]
      [] text.kind = "literal" ->
            [threw |-> FALSE,
             value |-> Parsed(ParseToken(text.members[1][2]),
                              Undefined, Undefined, Undefined)]
      [] OTHER -> [threw |-> TRUE, value |-> NullEnvelope]

\* -------------------------------------------------------------------- LZ4

\* A buffer: an LZ4 frame around a text, raw bytes, or no buffer at all.
Buffer(frame, text) == [frame |-> frame, text |-> text]
Absent == Buffer("nil", NotJson)

LZ4encode(text) == Buffer("lz4", text)

LZ4decode(buf) ==
    [threw |-> buf.frame # "lz4", text |-> buf.text]

\* Bytes the store may hold before the adapter writes anything.
Foreign ==
    { Absent,
      Buffer("raw", NotJson),
      LZ4encode(NotJson),
      LZ4encode(Text("literal", << <<"", <<"lit", "null">>>> >>)),
      LZ4encode(Text("literal", << <<"", <<"num", "5">>>> >>)),
      LZ4encode(Text("object", << <<"item", <<"num", "1">>>> >>)),
      LZ4encode(Text("object", << <<"stored", <<"num", "1">>>> >>)) }

\* ------------------------------------------------------------------ state

NoClient == 0                       \* this.client = null
ExtClient == MaxStarts + 1          \* the client passed as options.client
Clients == 1 .. MaxStarts + 1       \* start number s creates client s

VARIABLES
    client,     \* this.client: NoClient or the recorded handle
    settings,   \* this.settings
    conn,       \* per client: listeners, status, the calls and events it saw
    starts,     \* one record per call to start: its once-wrapped callback
    ops,        \* one record per call to get / set / drop
    store,      \* the remote store: store key -> buffer
    stopped,    \* stop has been called since the last call to start
    stopRun     \* number of stop calls just made in a row (capped at 2)

vars == <<client, settings, conn, starts, ops, store, stopped, stopRun>>

\* internals.defaults.
DefaultHost == "127.0.0.1"
DefaultPort == 6379

\* The options of the constructor. An option that is not given is "" (a
\* string), <<>> (the sentinel list), 0 (the port) or Undefined (database
\* and db).
Options(pt, sn, name, url, sock, host, port, pw, database, db) ==
    [partition |-> pt, sentinels |-> sn, sentinelName |-> name, url |-> url,
     socket |-> sock, host |-> host, port |-> port, password |-> pw,
     database |-> database, db |-> db]
NoOptions == Options(<<>>, <<>>, "", "", "", "", 0, "", Undefined, Undefined)

\* Object.assign({}, internals.defaults, options).
Assign(options) ==
    [options EXCEPT !.host = IF @ = "" THEN DefaultHost ELSE @,
                    !.port = IF @ = 0 THEN DefaultPort ELSE @]

\* The arguments of one call to Redis.createClient; what a call does not
\* pass is "", <<>> or 0.
Args(mode, sentinels, name, url, socket, port, host, password, db) ==
    [mode |-> mode, sentinels |-> sentinels, name |-> name, url |-> url,
     socket |-> socket, port |-> port, host |-> host, password |-> password,
     db |-> db]
NoArgs == Args("none", <<>>, "", "", "", 0, "", "", Undefined)

\* A choice of topology that looks at the url before the sentinels.
ClientArgsUrlFirst(s) ==
    LET password == s.password
        db == IF Truthy(s.database) THEN s.database ELSE s.db
    IN  IF s.url # ""
        THEN Args("url", <<>>, "", s.url, "", 0, "", password, db)
        ELSE IF s.sentinels # <<>>
        THEN Args("sentinel", s.sentinels, s.sentinelName, "", "", 0, "",
                  password, db)
        ELSE IF s.socket # ""
        THEN Args("socket", <<>>, "", "", s.socket, 0, "", password, db)
        ELSE Args("hostport", <<>>, "", "", "", s.port, s.host, password, db)

\* The call to Redis.createClient that start makes (lines 43-61).
ClientArgs(s) ==
    LET password == s.password
        db == IF Truthy(s.database) THEN s.database ELSE s.db
    IN  IF s.sentinels # <<>>
        THEN Args("sentinel", s.sentinels, s.sentinelName, "", "", 0, "",
                  password, db)
        ELSE IF s.url # ""
        THEN Args("url", <<>>, "", s.url, "", 0, "", password, db)
        ELSE IF s.socket # ""
        THEN Args("socket", <<>>, "", "", s.socket, 0, "", password, db)
        ELSE Args("hostport", <<>>, "", "", "", s.port, s.host, password, db)

\* The partitions this model varies.
Partitions == {<<>>, <<"p">>}
Keys == {[segment |-> <<"a">>, id |-> <<"1">>]}

\* Array.prototype.join(':') on a list of strings.
RECURSIVE Join(_)
Join(parts) ==
    IF Len(parts) = 0 THEN <<>>
    ELSE IF Len(parts) = 1 THEN parts[1]
    ELSE parts[1] \o <<":">> \o Join(Tail(parts))

\* generateKey that leaves the partition out.
generateKeyNoPartition(s, key) == Join(<<key.segment, key.id>>)

generateKey(s, key) ==
    Join((IF s.partition # <<>> THEN <<s.partition>> ELSE <<>>)
         \o <<key.segment, key.id>>)

StoreKeys(s) == {generateKey(s, k) : k \in Keys}

\* A client nobody has created yet.
NoConn == [created |-> FALSE, onError |-> FALSE, onceReady |-> FALSE,
           status |-> "none", trace |-> <<>>, args |-> NoArgs]

\* Redis.createClient(...): a client that is connecting, without listeners.
createClient == [created |-> TRUE, onError |-> FALSE, onceReady |-> FALSE,
                 status |-> "connecting", trace |-> <<>>, args |-> NoArgs]

Count(seq, x) == Cardinality({i \in 1 .. Len(seq) : seq[i] = x})
\* Events client c has emitted. The trace of a client lists the events it
\* emitted ("error", or "error@active" when it was the recorded handle at
\* that moment, and "ready") and the calls made on it, in order.
Events(c) ==
    Count(conn[c].trace, "error") + Count(conn[c].trace, "error@active")
    + Count(conn[c].trace, "ready")
RECURSIVE EventsUpTo(_)
EventsUpTo(c) == IF c = 0 THEN 0 ELSE Events(c) + EventsUpTo(c - 1)
TotalEvents == EventsUpTo(MaxStarts + 1)

\* The constructor without options: no client, the default settings, and a
\* store that holds nothing under the adapter's keys.
Init ==
    /\ client = NoClient
    /\ settings = Assign(NoOptions)
    /\ conn = [c \in Clients |-> NoConn]
    /\ starts = <<>>
    /\ ops = <<>>
    /\ store = [k \in StoreKeys(settings) |-> Absent]
    /\ stopped = FALSE
    /\ stopRun = 0

\* The constructor with or without options.client (a ready client the
\* caller manages).
InitLife ==
    /\ client \in {NoClient, ExtClient}
    /\ settings = Assign(NoOptions)
    /\ conn = [c \in Clients |->
                 IF c = client THEN [createClient EXCEPT !.status = "ready"]
                 ELSE NoConn]
    /\ starts = <<>>
    /\ ops = <<>>
    /\ store = [k \in StoreKeys(settings) |-> Absent]
    /\ stopped = FALSE
    /\ stopRun = 0

\* The constructor with options.client (a ready client the caller manages)
\* and options.partition, in front of a store that other writers have used.
InitCodec ==
    /\ client = ExtClient
    /\ settings \in {Assign([NoOptions EXCEPT !.partition = p]) : p \in Partitions}
    /\ conn = [c \in Clients |->
                 IF c = ExtClient THEN [createClient EXCEPT !.status = "ready"]
                 ELSE NoConn]
    /\ starts = <<>>
    /\ ops = <<>>
    /\ store \in [StoreKeys(settings) -> Foreign]
    /\ stopped = FALSE
    /\ stopRun = 0

\* Keys and partitions for the key generator: empty components, and
\* components that hold the separator.
KeySegments == {<<>>, <<"a">>, <<"a", "1">>, <<"a", ":", "1">>}
KeyIds == {<<>>, <<"1">>, <<"1", ":", "1">>}
KeyInputs == [segment : KeySegments, id : KeyIds]
KeyPartitions == {<<>>, <<"p">>, <<"q">>}

\* The constructor with options.client and options.partition, before any
\* call.
InitKey ==
    /\ client = ExtClient
    /\ settings \in {Assign([NoOptions EXCEPT !.partition = p]) :
                        p \in KeyPartitions}
    /\ conn = [c \in Clients |->
                 IF c = ExtClient THEN [createClient EXCEPT !.status = "ready"]
                 ELSE NoConn]
    /\ starts = <<>>
    /\ ops = <<>>
    /\ store = [k \in {generateKey(settings, key) : key \in KeyInputs} |-> Absent]
    /\ stopped = FALSE
    /\ stopRun = 0

\* Options that choose a topology: sentinels, url, socket, host and port
\* given or not, with and without credentials.
TopoOptions ==
    {Options(<<>>, sn[1], sn[2], url, socket, hp[1], hp[2], cr[1], cr[2], cr[3]) :
        sn \in {<< <<>>, "" >>, << <<"s1", "s2">>, "mymaster" >>},
        url \in {"", "redis://cache:6390"},
        socket \in {"", "/tmp/redis.sock"},
        hp \in {<<"", 0>>, <<"cache.local", 6380>>},
        cr \in {<<"", Undefined, Undefined>>,
                 <<"secret", JsNum(0), JsNum(2)>>,
                 <<"secret", JsNum(1), Undefined>>}}

\* The constructor with options that choose a topology.
InitTopo ==
    /\ client = NoClient
    /\ settings \in {Assign(o) : o \in TopoOptions}
    /\ conn = [c \in Clients |-> NoConn]
    /\ starts = <<>>
    /\ ops = <<>>
    /\ store = [k \in StoreKeys(settings) |-> Absent]
    /\ stopped = FALSE
    /\ stopRun = 0

\* ------------------------------------------------------------- Hoek.once

\* A wrapper that forgets it has run: every call reaches callback.
HoekOnceForgets(called) == TRUE

\* Hoek.once(callback): the wrapper runs callback unless it has run it before.
HoekOnce(called) == ~called

\* The once-wrapped callback of start number s, called with arg.
Callback(ss, s, arg) ==
    IF HoekOnce(ss[s].called)
    THEN [ss EXCEPT ![s].called = TRUE, ![s].cb = Append(@, arg)]
    ELSE ss

\* ------------------------------------------------------------------ start

\* start that calls back before it returns when a handle is recorded.
startCallsBackInline ==
    /\ Len(starts) < MaxStarts
    /\ LET s == Len(starts) + 1 IN
       IF client # NoClient
       THEN /\ starts' = Append(starts, [mode |-> "tick", tick |-> FALSE,
                                         called |-> TRUE, cb |-> <<"ok">>])
            /\ UNCHANGED conn
       ELSE /\ starts' = Append(starts, [mode |-> "connect", tick |-> FALSE,
                                         called |-> FALSE, cb |-> <<>>])
            /\ conn' = [conn EXCEPT ![s] = [createClient EXCEPT
                                              !.args = ClientArgs(settings),
                                              !.onError = TRUE,
                                              !.onceReady = TRUE]]
    /\ stopped' = FALSE
    /\ stopRun' = 0
    /\ UNCHANGED <<client, settings, ops, store>>

start ==
    /\ Len(starts) < MaxStarts
    /\ LET s == Len(starts) + 1 IN
       IF client # NoClient
       THEN \* return Hoek.nextTick(callback)();
            /\ starts' = Append(starts, [mode |-> "tick", tick |-> TRUE,
                                         called |-> FALSE, cb |-> <<>>])
            /\ UNCHANGED conn
       ELSE \* createClient, on('error'), once('ready')
            /\ starts' = Append(starts, [mode |-> "connect", tick |-> FALSE,
                                         called |-> FALSE, cb |-> <<>>])
            /\ conn' = [conn EXCEPT ![s] = [createClient EXCEPT
                                              !.args = ClientArgs(settings),
                                              !.onError = TRUE,
                                              !.onceReady = TRUE]]
    /\ stopped' = FALSE
    /\ stopRun' = 0
    /\ UNCHANGED <<client, settings, ops, store>>

\* The callback scheduled by Hoek.nextTick runs.
nextTick(s) ==
    /\ s \in 1 .. Len(starts)
    /\ starts[s].tick
    /\ starts' = Callback([starts EXCEPT ![s].tick = FALSE], s, "ok")
    /\ stopRun' = 0
    /\ UNCHANGED <<client, settings, conn, ops, store, stopped>>

\* Client c emits 'error': the listener of lines 65-71, if still attached.
onError(c) ==
    /\ conn[c].created
    /\ TotalEvents < MaxEvents
    /\ IF conn[c].onError /\ client = NoClient
       THEN /\ conn' = [conn EXCEPT ![c].trace = @ \o <<"error", "end">>]
            /\ starts' = Callback(starts, c, "err")
       ELSE /\ conn' = [conn EXCEPT ![c].trace =
                          Append(@, IF client = c THEN "error@active"
                                    ELSE "error")]
            /\ UNCHANGED starts
    /\ stopRun' = 0
    /\ UNCHANGED <<client, settings, ops, store, stopped>>

\* Client c becomes ready and emits 'ready': the listener of lines 75-79,
\* if still attached (once: it detaches itself).
onReady(c) ==
    /\ conn[c].created
    /\ TotalEvents < MaxEvents
    /\ IF conn[c].onceReady
       THEN /\ conn' = [conn EXCEPT ![c].status = "ready",
                                    ![c].onceReady = FALSE,
                                    ![c].trace = Append(@, "ready")]
            /\ client' = c
            /\ starts' = Callback(starts, c, "ok")
       ELSE /\ conn' = [conn EXCEPT ![c].status = "ready",
                                    ![c].trace = Append(@, "ready")]
            /\ UNCHANGED <<client, starts>>
    /\ stopRun' = 0
    /\ UNCHANGED <<settings, ops, store, stopped>>

\* The socket of client c drops: its status is no longer 'ready'.
statusChange(c) ==
    /\ conn[c].created
    /\ conn[c].status = "ready"
    /\ conn' = [conn EXCEPT ![c].status = "close"]
    /\ stopRun' = 0
    /\ UNCHANGED <<client, settings, starts, ops, store, stopped>>

\* ------------------------------------------------------------------- stop

\* stop that requests shutdown without detaching the listeners first.
stopKeepsListeners ==
    /\ IF client # NoClient
       THEN /\ conn' = [conn EXCEPT ![client].trace = Append(@, "quit")]
            /\ client' = NoClient
       ELSE UNCHANGED <<client, conn>>
    /\ stopped' = TRUE
    /\ stopRun' = IF stopRun < 2 THEN stopRun + 1 ELSE 2
    /\ UNCHANGED <<settings, starts, ops, store>>

\* stop that ends the handle but only flags it, keeping the reference.
stopKeepsReference ==
    /\ IF client # NoClient
       THEN conn' = [conn EXCEPT
                       ![client].onError = FALSE,
                       ![client].onceReady = FALSE,
                       ![client].trace = @ \o <<"removeAllListeners", "quit">>]
       ELSE UNCHANGED conn
    /\ stopped' = TRUE
    /\ stopRun' = IF stopRun < 2 THEN stopRun + 1 ELSE 2
    /\ UNCHANGED <<client, settings, starts, ops, store>>

stop ==
    /\ IF client # NoClient
       THEN /\ conn' = [conn EXCEPT
                          ![client].onError = FALSE,
                          ![client].onceReady = FALSE,
                          ![client].trace = @ \o <<"removeAllListeners", "quit">>]
            /\ client' = NoClient
       ELSE UNCHANGED <<client, conn>>
    /\ stopped' = TRUE
    /\ stopRun' = IF stopRun < 2 THEN stopRun + 1 ELSE 2
    /\ UNCHANGED <<settings, starts, ops, store>>

\* ---------------------------------------------------------------- isReady

\* isReady that only looks at the reference ("was ready once").
isReadyOnceReady == client # NoClient

isReady == client # NoClient /\ conn[client].status = "ready"

\* ------------------------------------------------------- get / set / drop

\* What a callback of get / set / drop was called with: err ("" for null)
\* and result.
NoResult == Parsed(Undefined, Undefined, Undefined, Undefined)
Outcome(err, result) == [err |-> err, result |-> result]
NotStarted == Outcome("Connection not started", NoResult)

\* What the store replied to a command: nothing yet, or (err, result).
Reply(got, err, result) == [got |-> got, err |-> err, result |-> result]
NoReply == Reply(FALSE, "", Absent)

\* A call to get / set / drop: the key it was called with, the store key,
\* the value, ttl and time of a set, the buffer it sends, the client the
\* command went to, and the calls of its callback.
Op(kind, lkey, key, item, ttl, now, payload, cl, st, cb) ==
    [kind |-> kind, lkey |-> lkey, key |-> key, item |-> item, ttl |-> ttl,
     now |-> now,
     payload |-> payload, cl |-> cl, st |-> st, reply |-> NoReply, cb |-> cb]

\* The operation whose reply the store sends next on its connection: replies
\* come in the order of the commands.
ReplyDue(i) ==
    /\ i \in 1 .. Len(ops)
    /\ ops[i].st = "pending"
    /\ \A j \in 1 .. i - 1 : ~(ops[j].st = "pending" /\ ops[j].cl = ops[i].cl)

\* get without the test of this.client: the command goes to whatever
\* this.client holds.
getUnguarded(key) ==
    /\ Len(ops) < MaxOps
    /\ ops' = Append(ops,
                Op("get", key, generateKey(settings, key), Undefined, 0, 0, Absent,
                   client, "pending", <<>>))
    /\ stopRun' = 0
    /\ UNCHANGED <<client, settings, conn, starts, store, stopped>>

get(key) ==
    /\ Len(ops) < MaxOps
    /\ ops' = Append(ops,
                IF client = NoClient
                THEN Op("get", key, generateKey(settings, key), Undefined, 0, 0, Absent,
                        NoClient, "done", <<NotStarted>>)
                ELSE Op("get", key, generateKey(settings, key), Undefined, 0, 0, Absent,
                        client, "pending", <<>>))
    /\ stopRun' = 0
    /\ UNCHANGED <<client, settings, conn, starts, store, stopped>>

\* A decoding that reports an unreadable buffer as a miss.
DecodeSwallows(result) ==
    LET raw == LZ4decode(result)
        parsed == JSONparse(raw.text)
        envelope == IF raw.threw \/ parsed.threw THEN NullEnvelope
                    ELSE parsed.value
    IN  IF ~Truthy(envelope.val)
        THEN Outcome("", NullEnvelope)
        ELSE IF ~Truthy(envelope.item) \/ ~Truthy(envelope.stored)
        THEN Outcome("Incorrect envelope structure", NoResult)
        ELSE Outcome("", envelope)

\* The decoding of lines 129-156 applied to the buffer the store returned.
Decode(result) ==
    LET raw == LZ4decode(result)
        parsed == JSONparse(raw.text)
        envelope == IF raw.threw \/ parsed.threw THEN NullEnvelope
                    ELSE parsed.value
    IN  IF ~Truthy(envelope.val)
        THEN Outcome("Bad envelope content", NoResult)
        ELSE IF ~Truthy(envelope.item) \/ ~Truthy(envelope.stored)
        THEN Outcome("Incorrect envelope structure", NoResult)
        ELSE Outcome("", envelope)

\* The callback of getBuffer without the test for an absent result: a
\* null reply goes to the decoder.
getReplyNoMissCheck(i, err) ==
    /\ ReplyDue(i)
    /\ ops[i].kind = "get"
    /\ LET result == store[ops[i].key] IN
       ops' = [ops EXCEPT
                 ![i].st = "done",
                 ![i].reply = Reply(TRUE, err, IF err # "" THEN Absent ELSE result),
                 ![i].cb = Append(@,
                    IF err # "" THEN Outcome(err, NoResult)
                    ELSE Decode(result))]
    /\ stopRun' = 0
    /\ UNCHANGED <<client, settings, conn, starts, store, stopped>>

\* The callback given to getBuffer (lines 119-157) runs with (err, result).
getReply(i, err) ==
    /\ ReplyDue(i)
    /\ ops[i].kind = "get"
    /\ LET result == store[ops[i].key] IN
       ops' = [ops EXCEPT
                 ![i].st = "done",
                 ![i].reply = Reply(TRUE, err, IF err # "" THEN Absent ELSE result),
                 ![i].cb = Append(@,
                    IF err # "" THEN Outcome(err, NoResult)
                    ELSE IF result = Absent THEN Outcome("", NullEnvelope)
                    ELSE Decode(result))]
    /\ stopRun' = 0
    /\ UNCHANGED <<client, settings, conn, starts, store, stopped>>

\* set whose catch only logs: after a failed encoding the write goes out
\* with the buffer still null.
setSwallows(key, value, ttl, now) ==
    /\ Len(ops) < MaxOps
    /\ LET envelope == [item |-> value, stored |-> JsNum(now), ttl |-> JsNum(ttl)]
           cacheKey == generateKey(settings, key)
           str == JSONstringify(envelope)
       IN ops' = Append(ops,
                IF client = NoClient
                THEN Op("set", key, cacheKey, value, ttl, now, Absent, NoClient, "done",
                        <<NotStarted>>)
                ELSE Op("set", key, cacheKey, value, ttl, now,
                        IF str.threw THEN Absent ELSE LZ4encode(str.text),
                        client, "pending", <<>>))
    /\ stopRun' = 0
    /\ UNCHANGED <<client, settings, conn, starts, store, stopped>>

set(key, value, ttl, now) ==
    /\ Len(ops) < MaxOps
    /\ LET envelope == [item |-> value, stored |-> JsNum(now), ttl |-> JsNum(ttl)]
           cacheKey == generateKey(settings, key)
           str == JSONstringify(envelope)
       IN ops' = Append(ops,
                IF client = NoClient
                THEN Op("set", key, cacheKey, value, ttl, now, Absent, NoClient, "done",
                        <<NotStarted>>)
                ELSE IF str.threw
                THEN Op("set", key, cacheKey, value, ttl, now, Absent, NoClient, "done",
                        <<Outcome("Converting circular structure to JSON",
                                  NoResult)>>)
                ELSE Op("set", key, cacheKey, value, ttl, now, LZ4encode(str.text),
                        client, "pending", <<>>))
    /\ stopRun' = 0
    /\ UNCHANGED <<client, settings, conn, starts, store, stopped>>

\* What the callback given to psetex (lines 197-201) passes on for err.
psetexCallback(err) ==
    IF err # "" THEN <<Outcome(err, NoResult)>> ELSE <<>>

\* A callback of psetex that gives up the connection on a store error.
psetexReplyDropsClient(i, err) ==
    /\ ReplyDue(i)
    /\ ops[i].kind = "set"
    /\ ops' = [ops EXCEPT ![i].st = "done",
                          ![i].reply = Reply(TRUE, err, Absent),
                          ![i].cb = @ \o psetexCallback(err)]
    /\ store' = IF err = "" THEN [store EXCEPT ![ops[i].key] = ops[i].payload]
                ELSE store
    /\ client' = IF err # "" THEN NoClient ELSE client
    /\ stopRun' = 0
    /\ UNCHANGED <<settings, conn, starts, stopped>>

\* The store executes psetex and the callback given to it runs with err.
psetexReply(i, err) ==
    /\ ReplyDue(i)
    /\ ops[i].kind = "set"
    /\ ops' = [ops EXCEPT ![i].st = "done",
                          ![i].reply = Reply(TRUE, err, Absent),
                          ![i].cb = @ \o psetexCallback(err)]
    /\ store' = IF err = "" THEN [store EXCEPT ![ops[i].key] = ops[i].payload]
                ELSE store
    /\ stopRun' = 0
    /\ UNCHANGED <<client, settings, conn, starts, stopped>>

drop(key) ==
    /\ Len(ops) < MaxOps
    /\ ops' = Append(ops,
                IF client = NoClient
                THEN Op("drop", key, generateKey(settings, key), Undefined, 0, 0, Absent,
                        NoClient, "done", <<NotStarted>>)
                ELSE Op("drop", key, generateKey(settings, key), Undefined, 0, 0, Absent,
                        client, "pending", <<>>))
    /\ stopRun' = 0
    /\ UNCHANGED <<client, settings, conn, starts, store, stopped>>

\* The store executes del and the callback given to it (lines 211-214) runs.
\* The reply of a del that succeeds tells what it removed.
delReply(i, err) ==
    /\ ReplyDue(i)
    /\ ops[i].kind = "drop"
    /\ ops' = [ops EXCEPT ![i].st = "done",
                          ![i].reply = Reply(TRUE, err, IF err # "" THEN Absent
                                                        ELSE store[ops[i].key]),
                          ![i].cb = Append(@, Outcome(err, NoResult))]
    /\ store' = IF err = "" THEN [store EXCEPT ![ops[i].key] = Absent]
                ELSE store
    /\ stopRun' = 0
    /\ UNCHANGED <<client, settings, conn, starts, stopped>>

\* The store expires a key written with psetex.
expire(k) ==
    /\ k \in DOMAIN store
    /\ store[k] # Absent
    /\ store' = [store EXCEPT ![k] = Absent]
    /\ stopRun' = 0
    /\ UNCHANGED <<client, settings, conn, starts, ops, stopped>>

\* ------------------------------------------------------------------- Next

StoreErrors == {"", "ERR store"}

\* Lifecycle: every call and event, with one value to set.
LifeValues == {JsNum(1)}

Next ==
    \/ start
    \/ \E s \in 1 .. MaxStarts : nextTick(s)
    \/ \E c \in Clients : onError(c)
    \/ \E c \in Clients : onReady(c)
    \/ \E c \in Clients : statusChange(c)
    \/ stop
    \/ \E k \in Keys : get(k)
    \/ \E k \in Keys, v \in LifeValues, t \in TTLs, n \in Times : set(k, v, t, n)
    \/ \E k \in Keys : drop(k)
    \/ \E i \in 1 .. MaxOps, e \in StoreErrors : getReply(i, e)
    \/ \E i \in 1 .. MaxOps, e \in StoreErrors : psetexReply(i, e)
    \/ \E i \in 1 .. MaxOps, e \in StoreErrors : delReply(i, e)
    \/ \E k \in DOMAIN store : expire(k)

Spec == Init /\ [][Next]_vars

\* Lifecycle alone: get, set and drop write neither this.client nor any
\* client or start callback, so they are left out here.
NextLife ==
    \/ start
    \/ \E s \in 1 .. MaxStarts : nextTick(s)
    \/ \E c \in Clients : onError(c)
    \/ \E c \in Clients : onReady(c)
    \/ \E c \in Clients : statusChange(c)
    \/ stop

SpecLife == InitLife /\ [][NextLife]_vars

\* Cache operations on a connection that stays recorded, with every value.
NextCodec ==
    \/ \E k \in Keys : get(k)
    \/ \E k \in Keys, v \in Values, t \in TTLs, n \in Times : set(k, v, t, n)
    \/ \E k \in Keys : drop(k)
    \/ \E i \in 1 .. MaxOps, e \in StoreErrors : getReply(i, e)
    \/ \E i \in 1 .. MaxOps, e \in StoreErrors : psetexReply(i, e)
    \/ \E i \in 1 .. MaxOps, e \in StoreErrors : delReply(i, e)
    \/ \E k \in DOMAIN store : expire(k)

SpecCodec == InitCodec /\ [][NextCodec]_vars

\* ----------------------------------------------------------------- claims

IsEvent(x) == x \in {"error", "error@active", "ready"}
\* The events client c has emitted, in order.
Emitted(c) == SelectSeq(conn[c].trace, IsEvent)
Connects == {s \in 1 .. Len(starts) : starts[s].mode = "connect"}

\* C1: the completion callback passed to one call of start is invoked at
\* most once, whatever 'error' and 'ready' events its client emits.
C1_CallbackAtMostOnce ==
    \A s \in 1 .. Len(starts) : Len(starts[s].cb) <= 1

\* A start whose client emitted an error and then became ready, called back once.
C1_Witness ==
    \E s \in Connects :
        /\ Emitted(s) = <<"error", "ready">>
        /\ Len(starts[s].cb) = 1

\* C2: the first event of the client a start created decides its outcome:
\* 'error' first and 'ready' after it gives exactly one callback, with the
\* error; 'ready' first gives exactly one callback without error.
C2_FirstEventDecides ==
    \A s \in Connects :
        /\ (Len(Emitted(s)) >= 2 /\ Emitted(s)[1] = "error"
            /\ Emitted(s)[2] = "ready") => starts[s].cb = <<"err">>
        /\ (Len(Emitted(s)) >= 1 /\ Emitted(s)[1] = "ready")
            => starts[s].cb = <<"ok">>

\* C3: after stop has returned and until start is called again, every call
\* to get, set or drop calls back with 'Connection not started' and issues
\* no store command.
C3_NotStartedAfterStop ==
    [][(stopped /\ stopped' /\ Len(ops') > Len(ops))
        => /\ ops'[Len(ops')].cb = <<NotStarted>>
           /\ ops'[Len(ops')].cl = NoClient]_vars

\* C4: a set on an active connection whose envelope encodes and whose psetex
\* is acknowledged without error has called back exactly once, with no error
\* and no result.
C4_SetCallsBack ==
    \A i \in 1 .. Len(ops) :
        (ops[i].kind = "set" /\ ops[i].reply.got /\ ops[i].reply.err = "")
            => ops[i].cb = <<Outcome("", NoResult)>>

\* Bytes that decompress, parse as a JSON object and pass the structure
\* validation of lines 150-154.
HasMember(text, name) ==
    \E i \in 1 .. Len(text.members) : text.members[i][1] = name
ValidEnvelope(buf) ==
    /\ buf.frame = "lz4"
    /\ buf.text.kind = "object"
    /\ HasMember(buf.text, "item") /\ Truthy(Member(buf.text, "item"))
    /\ HasMember(buf.text, "stored") /\ Truthy(Member(buf.text, "stored"))

Miss == Outcome("", NullEnvelope)
Gets == {i \in 1 .. Len(ops) : ops[i].kind = "get" /\ ops[i].reply.got}

C6_RoundTrip ==
    \A i \in Gets : \A j \in 1 .. i - 1 :
        (/\ ops[j].kind = "set" /\ ops[j].item \in Serializable
         /\ ops[j].reply.got /\ ops[j].reply.err = ""
         /\ ops[j].key = ops[i].key
         /\ ops[i].reply.err = "" /\ ops[i].reply.result = ops[j].payload)
        => /\ ops[i].cb[1].err = ""
           /\ ops[i].cb[1].result.item = ops[j].item
           /\ ops[i].cb[1].result.ttl = JsNum(ops[j].ttl)

\* C7: when the latest start has completed with an error, no connection is
\* recorded and isReady is false, whatever its client emits afterwards.
C7_FailedStartRecordsNothing ==
    \A s \in Connects :
        (s = Len(starts) /\ starts[s].cb = <<"err">>)
            => (client = NoClient /\ ~isReady)

\* C8: stop with no active connection changes no adapter state and calls
\* nothing on any client; stop on an active connection requests shutdown of
\* its handle once; after two stop calls in a row isReady is false and no
\* handle has been asked to shut down twice.
C8_StopIdempotent ==
    /\ [](stopRun = 2 =>
            /\ ~isReady
            /\ \A c \in Clients : Count(conn[c].trace, "quit") <= 1)
    /\ [][(stopRun' > 0 /\ client = NoClient)
            => UNCHANGED <<client, settings, conn, starts, ops, store>>]_vars
    /\ [][(stopRun' > 0 /\ client # NoClient)
            => Count(conn'[client].trace, "quit") = 1]_vars

\* Two stop calls in a row after a connection was active.
C8_Witness ==
    /\ stopRun = 2
    /\ \E c \in Clients : Count(conn[c].trace, "quit") = 1

C10_ErroredUnusable ==
    [][\A c \in Clients :
        Count(conn[c].trace, "error@active") > 0
            => /\ Len(ops') > Len(ops) => ops'[Len(ops')].cl # c
               /\ c \in Connects => starts'[c].cb = starts[c].cb]_vars


\* C11: while no connection is recorded, a call to get, set or drop calls
\* back exactly once with 'Connection not started', issues no store
\* command, builds no envelope to write and leaves the adapter state as it
\* was; the callback of such a call is never called again.
C11_NotStartedRejects ==
    /\ [][(client = NoClient /\ Len(ops') > Len(ops))
            => /\ ops'[Len(ops')].cb = <<NotStarted>>
               /\ ops'[Len(ops')].cl = NoClient
               /\ ops'[Len(ops')].st = "done"
               /\ ops'[Len(ops')].payload = Absent
               /\ UNCHANGED <<client, settings, conn, starts, store>>]_vars
    /\ [][\A i \in 1 .. Len(ops) :
            ops[i].cl = NoClient => ops'[i] = ops[i]]_vars

\* Calls rejected after a failed start and after a stop.
C11_Witness ==
    /\ Len(ops) = 2
    /\ \A i \in 1 .. 2 : ops[i].cb = <<NotStarted>>
    /\ ops[1].kind = "set"
    /\ stopped
    /\ \E s \in Connects : starts[s].cb = <<"err">>


EncodeError == Outcome("Converting circular structure to JSON", NoResult)
\* The calls to set, on a recorded connection, of a value that cannot be
\* serialized.
EncodeFailures(o) ==
    {i \in 1 .. Len(o) : o[i].kind = "set" /\ o[i].item = JsCyclic
                         /\ o[i].cb # <<NotStarted>>}

QuitAt(c) ==
    IF \E i \in 1 .. Len(conn[c].trace) : conn[c].trace[i] = "quit"
    THEN CHOOSE i \in 1 .. Len(conn[c].trace) : conn[c].trace[i] = "quit"
    ELSE 0

\* C13: stop on an active connection detaches all listeners, then requests
\* shutdown, and clears the reference; afterwards no event of the stopped
\* handle calls a start callback, makes the adapter record a connection, or
\* leads to another call on the handle.
C13_StoppedHandleIsInert ==
    /\ [](\A c \in Clients : QuitAt(c) > 0 =>
            /\ QuitAt(c) > 1
            /\ conn[c].trace[QuitAt(c) - 1] = "removeAllListeners"
            /\ \A j \in QuitAt(c) + 1 .. Len(conn[c].trace) :
                    IsEvent(conn[c].trace[j])
            /\ ~conn[c].onError /\ ~conn[c].onceReady
            /\ client # c)
    /\ [][\A c \in Clients :
            (QuitAt(c) > 0 /\ conn'[c].trace # conn[c].trace)
                => (starts' = starts /\ client' = client)]_vars

\* A stopped handle that emitted 'error' and 'ready' after the stop.
C13_Witness ==
    \E c \in Clients :
        /\ QuitAt(c) > 0
        /\ Len(conn[c].trace) >= QuitAt(c) + 2
        /\ conn[c].trace[QuitAt(c) + 1] = "error"
        /\ conn[c].trace[QuitAt(c) + 2] = "ready"
        /\ client = NoClient


Ticks == {s \in 1 .. Len(starts) : starts[s].mode = "tick"}

\* C14: start with a handle already recorded creates no client, registers
\* no listener and leaves the handle as it is; its callback has not run
\* when start returns, and then runs exactly once, without error.
C14_StartWithHandle ==
    /\ [][(client # NoClient /\ Len(starts') > Len(starts))
            => /\ UNCHANGED <<client, conn>>
               /\ starts'[Len(starts')].cb = <<>>
               /\ starts'[Len(starts')].tick]_vars
    /\ [](\A s \in Ticks :
            \/ starts[s].tick /\ starts[s].cb = <<>>
            \/ ~starts[s].tick /\ starts[s].cb = <<"ok">>)
    /\ \A s \in 1 .. MaxStarts :
            (s \in Ticks) ~> (s \in Ticks /\ starts[s].cb = <<"ok">>)

\* A start on the handle given to the constructor has called back.
C14_Witness ==
    /\ client = ExtClient
    /\ \E s \in Ticks : starts[s].cb = <<"ok">>
    /\ \A c \in Clients \ {ExtClient} : ~conn[c].created


\* The calls of get, set and drop, each of which computes its store key
\* with generateKey.
NextKey ==
    \/ \E k \in KeyInputs : get(k)
    \/ \E k \in KeyInputs, v \in LifeValues, t \in TTLs, n \in Times :
            set(k, v, t, n)
    \/ \E k \in KeyInputs : drop(k)

SpecKey == InitKey /\ [][NextKey]_vars

\* C15: under one partition setting, two keys that differ in segment or in
\* id never get the same store key.
C15_KeysDoNotCollide ==
    \A i, j \in 1 .. Len(ops) :
        ops[i].lkey # ops[j].lkey => ops[i].key # ops[j].key

\* C16: generateKey gives the same store key for the same key every time,
\* changes no state, and gives a different store key under any other
\* partition setting.
C16_KeyDeterministic ==
    /\ [](\A i, j \in 1 .. Len(ops) :
            ops[i].lkey = ops[j].lkey => ops[i].key = ops[j].key)
    /\ [](\A i \in 1 .. Len(ops) :
            \A p \in KeyPartitions \ {settings.partition} :
                generateKey([settings EXCEPT !.partition = p], ops[i].lkey)
                    # ops[i].key)
    /\ [][Len(ops') > Len(ops)
            => /\ UNCHANGED <<client, settings, conn, starts, store>>
               /\ SubSeq(ops', 1, Len(ops)) = ops]_vars

\* The same key used twice under partition 'p', and another key.
C16_Witness ==
    /\ settings.partition = <<"p">>
    /\ Len(ops) = 2
    /\ ops[1].lkey = ops[2].lkey
    /\ ops[1].key = <<"p", ":", "a", ":", "1">>


\* The steps that create, record and release clients.
NextTopo ==
    \/ start
    \/ \E s \in 1 .. MaxStarts : nextTick(s)
    \/ \E c \in Clients : onError(c)
    \/ \E c \in Clients : onReady(c)
    \/ stop

SpecTopo == InitTopo /\ [][NextTopo]_vars

\* The same steps with or without options.client; the event loop runs every
\* callback scheduled with nextTick.
SpecHandle ==
    /\ InitLife /\ [][NextTopo]_vars
    /\ WF_vars(\E s \in 1 .. MaxStarts : nextTick(s))

\* The topology the configuration asks for, by precedence.
ModeOf(s) ==
    CASE s.sentinels # <<>> -> "sentinel"
      [] s.sentinels = <<>> /\ s.url # "" -> "url"
      [] s.sentinels = <<>> /\ s.url = "" /\ s.socket # "" -> "socket"
      [] OTHER -> "hostport"

\* C17: a start that has to connect creates exactly one client, in the one
\* mode the configuration selects by precedence (sentinels, url, socket,
\* host and port with defaults 127.0.0.1 and 6379), and passes password
\* and database index in every mode.
C17_OneClientByPrecedence ==
    /\ \A s \in 1 .. MaxStarts : conn[s].created <=> s \in Connects
    /\ settings.host # "" /\ settings.port # 0
    /\ \A s \in Connects :
        LET a == conn[s].args IN
        /\ a.mode = ModeOf(settings)
        /\ a.password = settings.password
        /\ a.db = (IF Truthy(settings.database) THEN settings.database
                   ELSE settings.db)
        /\ a.mode = "sentinel" =>
              /\ a.sentinels = settings.sentinels
              /\ a.name = settings.sentinelName
              /\ a.url = "" /\ a.socket = "" /\ a.host = "" /\ a.port = 0
        /\ a.mode = "url" =>
              /\ a.url = settings.url
              /\ a.sentinels = <<>> /\ a.socket = "" /\ a.host = ""
        /\ a.mode = "socket" =>
              /\ a.socket = settings.socket
              /\ a.sentinels = <<>> /\ a.url = "" /\ a.host = ""
        /\ a.mode = "hostport" =>
              /\ a.host = settings.host /\ a.port = settings.port
              /\ a.sentinels = <<>> /\ a.url = "" /\ a.socket = ""

\* A client created from sentinels although a url, a socket and a host are
\* configured too, with its credentials.
C17_Witness ==
    /\ settings.url # "" /\ settings.socket # ""
    /\ settings.host # DefaultHost
    /\ \E s \in Connects :
        /\ conn[s].args.mode = "sentinel"
        /\ conn[s].args.password = "secret"
        /\ conn[s].args.db = JsNum(2)


\* Operation i is a drop that called back without error.
Dropped(i) ==
    /\ ops[i].kind = "drop"
    /\ ops[i].reply.got /\ ops[i].reply.err = ""

\* C18: with a store that executes commands in order, a get of a key that
\* follows a drop of that key which called back without error, with no set
\* of the key between the two, reports a miss (no error, null); and a drop
\* of a key the store does not hold calls back exactly once, without error.
C18_DropThenGetMisses ==
    /\ \A i, j \in 1 .. Len(ops) :
          (/\ i < j
           /\ Dropped(i)
           /\ ops[j].kind = "get" /\ ops[j].key = ops[i].key
           /\ ops[j].reply.got /\ ops[j].reply.err = ""
           /\ \A m \in i + 1 .. j - 1 :
                 ~(ops[m].kind = "set" /\ ops[m].key = ops[i].key))
          => ops[j].cb = <<Miss>>
    /\ \A i \in 1 .. Len(ops) :
          (Dropped(i) /\ ops[i].reply.result = Absent)
          => ops[i].cb = <<Outcome("", NoResult)>>
    /\ \A i \in 1 .. Len(ops) :
          (ops[i].kind = "drop" /\ ~ops[i].reply.got /\ ops[i].cl # NoClient)
          => ops[i].cb = <<>>

\* A drop of a key the store did not hold called back without error, and
\* the get that followed reported a miss.
C18_Witness ==
    /\ Len(ops) = 2
    /\ Dropped(1) /\ ops[1].reply.result = Absent
    /\ ops[1].cb = <<Outcome("", NoResult)>>
    /\ ops[2].kind = "get" /\ ops[2].key = ops[1].key
    /\ ops[2].cb = <<Miss>>


\* The operations on a supplied client, which stop may release at any time.
NextFrame ==
    \/ NextCodec
    \/ stop

SpecFrame == InitCodec /\ [][NextFrame]_vars

\* The last call of the callback of operation i reported an error.
Failed(i) == ops[i].cb # <<>> /\ ops[i].cb[Len(ops[i].cb)].err # ""

\* What the store's reply to operation i makes of its callback.
OwnOutcome(i) ==
    LET r == ops[i].reply IN
    CASE ops[i].kind = "get" ->
            <<IF r.err # "" THEN Outcome(r.err, NoResult)
              ELSE IF r.result = Absent THEN Miss
              ELSE Decode(r.result)>>
      [] ops[i].kind = "set" -> psetexCallback(r.err)
      [] OTHER -> <<Outcome(r.err, NoResult)>>

\* C19: a step of get, set or drop, whatever its outcome, leaves the
\* recorded client and the settings as they are and touches one operation
\* only; a failing one leaves the store alone too, and what an operation
\* reports is decided by the store's reply to it alone, or, for one that
\* sent no command, is the one error that kept it from sending.
C19_OperationsLeaveConnection ==
    /\ [][ops' # ops =>
            /\ UNCHANGED <<client, settings, conn, starts>>
            /\ \/ /\ Len(ops') = Len(ops) + 1
                  /\ SubSeq(ops', 1, Len(ops)) = ops
                  /\ store' = store
               \/ /\ Len(ops') = Len(ops)
                  /\ \E i \in 1 .. Len(ops) :
                        /\ \A j \in 1 .. Len(ops) \ {i} : ops'[j] = ops[j]
                        /\ Failed(i)' => store' = store]_vars
    /\ [](\A i \in 1 .. Len(ops) :
            /\ ops[i].reply.got => ops[i].cb = OwnOutcome(i)
            /\ ops[i].cl = NoClient => ops[i].cb \in {<<NotStarted>>, <<EncodeError>>})

\* A get failed on a corrupt envelope and the operation after it, on the
\* same client, succeeded.
C19_Witness ==
    /\ Len(ops) = 2
    /\ client = ExtClient
    /\ ops[1].kind = "get" /\ ops[1].reply.got /\ ops[1].reply.err = ""
    /\ Failed(1)
    /\ ops[2].cl = ExtClient /\ ops[2].reply.got /\ ops[2].reply.err = ""
    /\ ~Failed(2)


\* The clients created by the adapter that are open: created and neither
\* ended nor quit.
OpenClients ==
    {c \in 1 .. MaxStarts :
        /\ conn[c].created
        /\ \A n \in 1 .. Len(conn[c].trace) : conn[c].trace[n] \notin {"end", "quit"}}

\* C20: at any time at most one client created by the adapter is open.
C20_AtMostOneOpenClient ==
    Cardinality(OpenClients) <= 1

====
